---------------------------- MODULE Spec2Model ----------------------------
(***************************************************************************)
(* The minimal query-serving endpoint embedded in                          *)
(* src/test_postgres_backend.py (class GraphQLHandler, lines 208-292): a   *)
(* POST handler that classifies the request's query text by substring     *)
(* tests and proxies one of two fixed SQL templates to psql, and an        *)
(* OPTIONS handler answering CORS preflights.                              *)
(*                                                                         *)
(* Python str values are sequences of one-character strings, so that the   *)
(* `in` substring test is computed rather than assumed.  Byte streams and  *)
(* process output are sequences of tokens: whitespace, the serialisation   *)
(* of a JSON value, characters that are not JSON, or bytes that are not    *)
(* UTF-8.                                                                  *)
(***************************************************************************)
EXTENDS Integers, Sequences, FiniteSets, TLC

VARIABLES
    db,        \* backend state: what psql answers to each SQL text
    req,       \* the request being answered (NoRequest before the first)
    wire,      \* what the handler wrote to the connection, in order
    calls,     \* every subprocess.run made for this request: argv and result
    escaped,   \* type name of an exception that left the handler, or "none"
    trace,     \* the blocks of the handler that ran, in order
    at,        \* history: the backend state when req was answered
    earlier,   \* history: some exchange completed before this one
    helper,    \* one run of db_helper.py: position, loop index, output
    run        \* one run of a test runner: position, tests tried, verdict

vars == <<db, req, wire, calls, escaped, trace, at, earlier, helper, run>>

(***************************************************************************)
(* Bounds of the model.                                                    *)
(***************************************************************************)
\* most rows in a backend result
MaxRows == 2
\* most whitespace tokens psql puts before its output
MaxPad == 1
\* most lines `psql -l -t` prints
MaxLines == 3

(***************************************************************************)
(* Text constants.                                                         *)
(***************************************************************************)
\* the text users
kw_users ==
    <<"u","s","e","r","s">>
\* the text posts
kw_posts ==
    <<"p","o","s","t","s">>
\* the text query
k_query ==
    <<"q","u","e","r","y">>
\* the text data
k_data ==
    <<"d","a","t","a">>
\* the text errors
k_errors ==
    <<"e","r","r","o","r","s">>
\* the text message
k_message ==
    <<"m","e","s","s","a","g","e">>
\* the text id
k_id ==
    <<"i","d">>
\* the text name
k_name ==
    <<"n","a","m","e">>
\* the text email
k_email ==
    <<"e","m","a","i","l">>
\* the text title
k_title ==
    <<"t","i","t","l","e">>
\* the text content
k_content ==
    <<"c","o","n","t","e","n","t">>
\* the text published
k_published ==
    <<"p","u","b","l","i","s","h","e","d">>
\* the text author
k_author ==
    <<"a","u","t","h","o","r">>
\* the text Database query failed
msg_db_failed ==
    <<"D","a","t","a","b","a","s","e"," ","q","u","e","r","y"," ","f","a","i",
      "l","e","d">>
\* the text Unknown query
msg_unknown ==
    <<"U","n","k","n","o","w","n"," ","q","u","e","r","y">>
\* the text { users { id name email } }
q_users ==
    <<"{"," ","u","s","e","r","s"," ","{"," ","i","d"," ","n","a","m","e"," ",
      "e","m","a","i","l"," ","}"," ","}">>
\* the text { posts { id title author { name } } }
q_posts ==
    <<"{"," ","p","o","s","t","s"," ","{"," ","i","d"," ","t","i","t","l","e",
      " ","a","u","t","h","o","r"," ","{"," ","n","a","m","e"," ","}"," ","}",
      " ","}">>
\* the text { users posts }
q_users_posts ==
    <<"{"," ","u","s","e","r","s"," ","p","o","s","t","s"," ","}">>
\* the text { posts users }
q_posts_users ==
    <<"{"," ","p","o","s","t","s"," ","u","s","e","r","s"," ","}">>
\* the text { unknownField }
q_unknown ==
    <<"{"," ","u","n","k","n","o","w","n","F","i","e","l","d"," ","}">>
\* the text postsecondary
q_postsecondary ==
    <<"p","o","s","t","s","e","c","o","n","d","a","r","y">>
\* the text discussions
q_discussions ==
    <<"d","i","s","c","u","s","s","i","o","n","s">>
\* the text { Users }
q_Users ==
    <<"{"," ","U","s","e","r","s"," ","}">>
\* the text { user s }
q_user_s ==
    <<"{"," ","u","s","e","r"," ","s"," ","}">>
\* the text psql: FATAL:  database does not exist
txt_fatal ==
    <<"p","s","q","l",":"," ","F","A","T","A","L",":"," "," ","d","a","t","a",
      "b","a","s","e"," ","d","o","e","s"," ","n","o","t"," ","e","x","i","s",
      "t">>
\* the text NOTICE: ok
txt_notice ==
    <<"N","O","T","I","C","E",":"," ","o","k">>
\* the text Expecting value: line 1 column 1 (char 0)
exc_json ==
    <<"E","x","p","e","c","t","i","n","g"," ","v","a","l","u","e",":"," ","l",
      "i","n","e"," ","1"," ","c","o","l","u","m","n"," ","1"," ","(","c","h",
      "a","r"," ","0",")">>
\* the text 'utf-8' codec can't decode byte 0xff in position 0: invalid start byte
exc_utf8 ==
    <<"'","u","t","f","-","8","'"," ","c","o","d","e","c"," ","c","a","n","'",
      "t"," ","d","e","c","o","d","e"," ","b","y","t","e"," ","0","x","f","f",
      " ","i","n"," ","p","o","s","i","t","i","o","n"," ","0",":"," ","i","n",
      "v","a","l","i","d"," ","s","t","a","r","t"," ","b","y","t","e">>
\* the text 'list' object has no attribute 'get'
exc_noget_list ==
    <<"'","l","i","s","t","'"," ","o","b","j","e","c","t"," ","h","a","s"," ",
      "n","o"," ","a","t","t","r","i","b","u","t","e"," ","'","g","e","t","'">>
\* the text 'str' object has no attribute 'get'
exc_noget_str ==
    <<"'","s","t","r","'"," ","o","b","j","e","c","t"," ","h","a","s"," ","n",
      "o"," ","a","t","t","r","i","b","u","t","e"," ","'","g","e","t","'">>
\* the text 'int' object has no attribute 'get'
exc_noget_int ==
    <<"'","i","n","t","'"," ","o","b","j","e","c","t"," ","h","a","s"," ","n",
      "o"," ","a","t","t","r","i","b","u","t","e"," ","'","g","e","t","'">>
\* the text 'NoneType' object has no attribute 'get'
exc_noget_none ==
    <<"'","N","o","n","e","T","y","p","e","'"," ","o","b","j","e","c","t"," ",
      "h","a","s"," ","n","o"," ","a","t","t","r","i","b","u","t","e"," ","'",
      "g","e","t","'">>
\* the text argument of type 'int' is not iterable
exc_notiter_int ==
    <<"a","r","g","u","m","e","n","t"," ","o","f"," ","t","y","p","e"," ","'",
      "i","n","t","'"," ","i","s"," ","n","o","t"," ","i","t","e","r","a","b",
      "l","e">>
\* the text argument of type 'NoneType' is not iterable
exc_notiter_none ==
    <<"a","r","g","u","m","e","n","t"," ","o","f"," ","t","y","p","e"," ","'",
      "N","o","n","e","T","y","p","e","'"," ","i","s"," ","n","o","t"," ","i",
      "t","e","r","a","b","l","e">>
\* the text argument of type 'bool' is not iterable
exc_notiter_bool ==
    <<"a","r","g","u","m","e","n","t"," ","o","f"," ","t","y","p","e"," ","'",
      "b","o","o","l","'"," ","i","s"," ","n","o","t"," ","i","t","e","r","a",
      "b","l","e">>
\* the text [Errno 2] No such file or directory: 'psql'
exc_nopsql ==
    <<"[","E","r","r","n","o"," ","2","]"," ","N","o"," ","s","u","c","h"," ",
      "f","i","l","e"," ","o","r"," ","d","i","r","e","c","t","o","r","y",":",
      " ","'","p","s","q","l","'">>

(***************************************************************************)
(* Python values.                                                          *)
(***************************************************************************)
PyStr(s) == [k |-> "str", s |-> s]
PyInt(n) == [k |-> "int", n |-> n]
PyBool(b) == [k |-> "bool", b |-> b]
PyNone == [k |-> "NoneType"]
PyList(items) == [k |-> "list", items |-> items]
\* a dict is its sequence of <<key text, value>> pairs, in insertion order
PyDict(pairs) == [k |-> "dict", pairs |-> pairs]

SetMin(S) == CHOOSE x \in S : \A y \in S : x <= y
SetMax(S) == CHOOSE x \in S : \A y \in S : x >= y

\* str.__contains__: needle occurs in hay as a contiguous run
Contains(needle, hay) ==
    \E i \in 1..(Len(hay) - Len(needle) + 1) :
        SubSeq(hay, i, i + Len(needle) - 1) = needle

\* `needle in container` for a str needle: substring of a str, element of a
\* list, key of a dict, TypeError for a value that is not a container
PyIn(needle, container) ==
    CASE container.k = "str" ->
            [ok |-> TRUE, value |-> Contains(needle, container.s), exc |-> <<>>]
      [] container.k = "list" ->
            [ok |-> TRUE,
             value |-> \E i \in 1..Len(container.items) :
                           container.items[i] = PyStr(needle),
             exc |-> <<>>]
      [] container.k = "dict" ->
            [ok |-> TRUE,
             value |-> \E i \in 1..Len(container.pairs) :
                           container.pairs[i][1] = needle,
             exc |-> <<>>]
      [] container.k = "NoneType" ->
            [ok |-> FALSE, value |-> FALSE, exc |-> exc_notiter_none]
      [] container.k = "bool" ->
            [ok |-> FALSE, value |-> FALSE, exc |-> exc_notiter_bool]
      [] OTHER ->
            [ok |-> FALSE, value |-> FALSE, exc |-> exc_notiter_int]

\* PyGet gone wrong: dict.get(key), the default forgotten
PyGet_NoDefault(obj, key, default) ==
    IF obj.k = "dict"
    THEN LET hits == {i \in 1..Len(obj.pairs) : obj.pairs[i][1] = key}
         IN  [ok |-> TRUE,
              value |-> IF hits = {} THEN PyNone
                        ELSE obj.pairs[SetMax(hits)][2],
              exc |-> <<>>]
    ELSE [ok |-> FALSE, value |-> PyNone, exc |-> exc_noget_int]

\* dict.get(key, default); AttributeError on a value that is no dict
PyGet(obj, key, default) ==
    IF obj.k = "dict"
    THEN LET hits == {i \in 1..Len(obj.pairs) : obj.pairs[i][1] = key}
         IN  [ok |-> TRUE,
              value |-> IF hits = {} THEN default
                        ELSE obj.pairs[SetMax(hits)][2],
              exc |-> <<>>]
    ELSE [ok |-> FALSE, value |-> PyNone,
          exc |-> CASE obj.k = "list" -> exc_noget_list
                    [] obj.k = "str" -> exc_noget_str
                    [] obj.k = "NoneType" -> exc_noget_none
                    [] OTHER -> exc_noget_int]

(***************************************************************************)
(* Text and bytes: sequences of tokens.                                    *)
(***************************************************************************)
\* one whitespace character
Ws(c) == [t |-> "ws", c |-> c]
\* the JSON serialisation of the value v
JsonText(v) == [t |-> "json", v |-> v]
\* characters that are not JSON
RawText(s) == [t |-> "raw", s |-> s]
\* bytes that are not UTF-8
BadBytes == [t |-> "bad"]

\* str.strip()
Strip(text) ==
    LET solid == {i \in 1..Len(text) : text[i].t # "ws"}
    IN  IF solid = {} THEN <<>>
        ELSE SubSeq(text, SetMin(solid), SetMax(solid))

\* the text 'null'
NullText == <<JsonText(PyNone)>>

\* bytes.decode('utf-8')
Utf8Decode(bytes) ==
    IF \E i \in 1..Len(bytes) : bytes[i].t = "bad"
    THEN [ok |-> FALSE, text |-> <<>>, exc |-> exc_utf8]
    ELSE [ok |-> TRUE, text |-> bytes, exc |-> <<>>]

\* json.loads: one JSON document, surrounding whitespace allowed
JsonLoads(text) ==
    LET s == Strip(text)
    IN  IF Len(s) = 1 /\ s[1].t = "json"
        THEN [ok |-> TRUE, value |-> s[1].v, exc |-> <<>>]
        ELSE [ok |-> FALSE, value |-> PyNone, exc |-> exc_json]

\* json.dumps
JsonDumps(v) == <<JsonText(v)>>

(***************************************************************************)
(* The Data Backend: psql run as a subprocess.                             *)
(***************************************************************************)
TestDb == "codegen_backend_test"
UsersSql == "SELECT json_agg(row_to_json(users)) FROM users;"
PostsSql == "SELECT json_agg(json_build_object('id', p.id, 'title', p.title, 'content', p.content, 'published', p.published, 'author', json_build_object('name', u.name, 'email', u.email))) FROM posts p JOIN users u ON p.author_id = u.id WHERE p.published = true;"

UsersArgv == <<"psql", TestDb, "-t", "-c", UsersSql>>
PostsArgv == <<"psql", TestDb, "-t", "-c", PostsSql>>

\* a CompletedProcess, or the OSError raised when psql cannot be started
Exited(rc, out, err) ==
    [kind |-> "exit", returncode |-> rc, stdout |-> out, stderr |-> err]
SpawnError ==
    [kind |-> "oserror", returncode |-> 0, stdout |-> <<>>, stderr |-> <<>>]

\* Run gone wrong: the answer to the last call is kept and given again
Run_Cached(argv, d) ==
    IF calls # <<>> /\ calls[1].argv = argv
    THEN calls[1].result
    ELSE IF argv[1] = "psql" /\ argv[2] = TestDb /\ argv[5] \in DOMAIN d
    THEN d[argv[5]]
    ELSE Exited(2, <<>>, <<RawText(txt_fatal)>>)

\* subprocess.run(argv, capture_output=True, text=True) against backend d
Run(argv, d) ==
    IF argv[1] = "psql" /\ argv[2] = TestDb /\ argv[5] \in DOMAIN d
    THEN d[argv[5]]
    ELSE Exited(2, <<>>, <<RawText(txt_fatal)>>)

\* rows as json_agg serialises them
UserRow(i) ==
    PyDict(<< <<k_id, PyInt(i)>>, <<k_name, PyStr(<<"u">>)>>,
              <<k_email, PyStr(<<"u", "@", "x">>)>> >>)
PostRow(i) ==
    PyDict(<< <<k_id, PyInt(i)>>, <<k_title, PyStr(<<"t">>)>>,
              <<k_content, PyStr(<<"c">>)>>, <<k_published, PyBool(TRUE)>>,
              <<k_author, PyDict(<< <<k_name, PyStr(<<"u">>)>>,
                                    <<k_email, PyStr(<<"u", "@", "x">>)>> >>)>> >>)
\* the first n rows of a template's result
Rows(sql, n) ==
    PyList([i \in 1..n |-> IF sql = UsersSql THEN UserRow(i) ELSE PostRow(i)])

\* psql -t prints a value with leading blanks and a trailing newline
Padded(payload, n) == [i \in 1..n |-> Ws(" ")] \o payload \o <<Ws("\n")>>

\* what psql may answer to one SQL text
Outcomes(sql) ==
    {Exited(0, <<>>, <<>>),
     Exited(0, <<Ws("\n")>>, <<>>),
     Exited(0, <<RawText(txt_notice)>>, <<>>),
     Exited(0, <<RawText(txt_notice), Ws("\n"), JsonText(Rows(sql, 1))>>, <<>>),
     Exited(1, <<>>, <<RawText(txt_fatal)>>),
     Exited(2, <<JsonText(Rows(sql, 1)), Ws("\n")>>, <<RawText(txt_fatal)>>),
     SpawnError}
    \cup {Exited(0, Padded(NullText, p), <<>>) : p \in 0..MaxPad}
    \cup {Exited(0, Padded(<<JsonText(Rows(sql, n))>>, MaxPad), <<>>) :
              n \in 0..MaxRows}

Backends ==
    {[s \in {UsersSql, PostsSql} |-> IF s = UsersSql THEN u ELSE p] :
        u \in Outcomes(UsersSql), p \in Outcomes(PostsSql)}

(***************************************************************************)
(* Requests.                                                               *)
(***************************************************************************)
Endpoint == "/graphql"

\* the Content-Length header: absent, or present with text that is the
\* decimal numeral of n or is not a numeral
NoLength == [present |-> FALSE, numeral |-> FALSE, n |-> 0]
BadLength == [present |-> TRUE, numeral |-> FALSE, n |-> 0]
Length(n) == [present |-> TRUE, numeral |-> TRUE, n |-> n]

Request(m, p, cl, body) ==
    [method |-> m, path |-> p, content_length |-> cl, body |-> body]
NoRequest == Request("", "", NoLength, <<>>)

\* a JSON object carrying the query value q
Payload(q) == <<JsonText(PyDict(<< <<k_query, q>> >>))>>

QueryTexts ==
    {q_users, q_posts, q_users_posts, q_posts_users, q_unknown,
     q_postsecondary, q_discussions, q_Users, q_user_s, <<>>}

Bodies ==
    {Payload(PyStr(q)) : q \in QueryTexts}
    \cup {Payload(PyInt(5)), Payload(PyNone), Payload(PyBool(TRUE)),
          Payload(PyList(<<PyStr(kw_users)>>)), Payload(PyList(<<>>)),
          Payload(PyDict(<< <<kw_posts, PyInt(1)>> >>)),
          <<JsonText(PyDict(<<>>))>>,
          <<Ws(" "), JsonText(PyDict(<< <<k_query, PyStr(q_posts)>> >>)),
            Ws("\n")>>,
          <<JsonText(PyList(<<>>))>>, <<JsonText(PyStr(q_users))>>,
          <<JsonText(PyInt(1))>>, <<JsonText(PyNone)>>,
          <<RawText(q_users)>>, <<BadBytes>>, <<>>}

PostRequests ==
    {Request("POST", Endpoint, Length(Len(b)), b) : b \in Bodies}
    \cup {Request("POST", Endpoint, cl, Payload(PyStr(q_users))) :
              cl \in {NoLength, BadLength, Length(0)}}
    \cup {Request("POST", p, cl, Payload(PyStr(q_users))) :
              p \in {"/", "/graphql/"}, cl \in {NoLength, Length(1)}}
OptionsRequests ==
    {Request("OPTIONS", p, NoLength, <<>>) : p \in {Endpoint, "/"}}
OtherRequests ==
    {Request(m, p, NoLength, <<>>) : m \in {"GET", "PUT"}, p \in {Endpoint, "/"}}

(***************************************************************************)
(* What a handler writes to the connection.                                *)
(***************************************************************************)
Status(code) ==
    [op |-> "status", code |-> code, name |-> "", value |-> "", body |-> <<>>]
Header(name, value) ==
    [op |-> "header", code |-> 0, name |-> name, value |-> value, body |-> <<>>]
EndHeaders ==
    [op |-> "end_headers", code |-> 0, name |-> "", value |-> "", body |-> <<>>]
Body(text) ==
    [op |-> "body", code |-> 0, name |-> "", value |-> "", body |-> text]

\* {"errors": [{"message": text}]}
Errors(text) ==
    PyDict(<< <<k_errors, PyList(<<PyDict(<< <<k_message, PyStr(text)>> >>)>>)>> >>)
\* {"data": {field: records}}
Data(field, records) ==
    PyDict(<< <<k_data, PyDict(<< <<field, records>> >>)>> >>)

\* what the try block of do_POST ends with: a response to send, or an
\* exception whose str() is exc
Done(response, made, ran) ==
    [raised |-> FALSE, response |-> response, exc |-> <<>>,
     calls |-> made, trace |-> ran]
Raised(exc, made, ran) ==
    [raised |-> TRUE, response |-> PyNone, exc |-> exc,
     calls |-> made, trace |-> ran]

(***************************************************************************)
(* GraphQLHandler.do_POST                                                  *)
(***************************************************************************)
\* int(self.headers['Content-Length'])
ContentLength(r) ==
    IF ~r.content_length.present
    THEN [ok |-> FALSE, n |-> 0, exc |-> "TypeError"]
    ELSE IF ~r.content_length.numeral
    THEN [ok |-> FALSE, n |-> 0, exc |-> "ValueError"]
    ELSE [ok |-> TRUE, n |-> r.content_length.n, exc |-> "none"]

\* self.rfile.read(n) of a request whose whole body has arrived
Read(body, n) == SubSeq(body, 1, IF n < Len(body) THEN n ELSE Len(body))

\* Envelope gone wrong: the comparison with 'null' is missing
Envelope_NoNullTest(field, result) ==
    IF result.returncode = 0
    THEN LET data == Strip(result.stdout)
         IN  IF data # <<>>
             THEN LET decoded == JsonLoads(data)
                  IN  IF decoded.ok
                      THEN [raised |-> FALSE, exc |-> <<>>,
                            response |-> Data(field, decoded.value)]
                      ELSE [raised |-> TRUE, exc |-> decoded.exc,
                            response |-> PyNone]
             ELSE [raised |-> FALSE, exc |-> <<>>,
                   response |-> Data(field, PyList(<<>>))]
    ELSE [raised |-> FALSE, exc |-> <<>>, response |-> Errors(msg_db_failed)]

\* Envelope gone wrong: the failure message carries psql's stderr
Envelope_EchoStderr(field, result) ==
    IF result.returncode = 0
    THEN LET data == Strip(result.stdout)
         IN  IF data # <<>> /\ data # NullText
             THEN LET decoded == JsonLoads(data)
                  IN  IF decoded.ok
                      THEN [raised |-> FALSE, exc |-> <<>>,
                            response |-> Data(field, decoded.value)]
                      ELSE [raised |-> TRUE, exc |-> decoded.exc,
                            response |-> PyNone]
             ELSE [raised |-> FALSE, exc |-> <<>>,
                   response |-> Data(field, PyList(<<>>))]
    ELSE [raised |-> FALSE, exc |-> <<>>,
          response |-> Errors(IF result.stderr = <<>> THEN msg_db_failed
                              ELSE msg_db_failed \o result.stderr[1].s)]

\* the branch of one keyword once psql has returned result
Envelope(field, result) ==
    IF result.returncode = 0
    THEN LET data == Strip(result.stdout)
         IN  IF data # <<>> /\ data # NullText
             THEN LET decoded == JsonLoads(data)
                  IN  IF decoded.ok
                      THEN [raised |-> FALSE, exc |-> <<>>,
                            response |-> Data(field, decoded.value)]
                      ELSE [raised |-> TRUE, exc |-> decoded.exc,
                            response |-> PyNone]
             ELSE [raised |-> FALSE, exc |-> <<>>,
                   response |-> Data(field, PyList(<<>>))]
    ELSE [raised |-> FALSE, exc |-> <<>>, response |-> Errors(msg_db_failed)]

\* Resolve gone wrong: a failed psql call is made a second time
Resolve_Retry(field, argv, d, ran) ==
    LET first == Run(argv, d)
        again == first.kind = "exit" /\ first.returncode # 0
        result == IF again THEN Run(argv, d) ELSE first
        made == IF again
                THEN <<[argv |-> argv, result |-> first],
                       [argv |-> argv, result |-> result]>>
                ELSE <<[argv |-> argv, result |-> result]>>
    IN  IF result.kind = "oserror"
        THEN Raised(exc_nopsql, made, ran)
        ELSE LET e == Envelope(field, result)
             IN  IF e.raised
                 THEN Raised(e.exc, made, ran)
                 ELSE Done(e.response, made, ran)

\* one keyword's branch: run psql with the template, wrap what it answers
Resolve(field, argv, d, ran) ==
    LET result == Run(argv, d)
        made == <<[argv |-> argv, result |-> result]>>
    IN  IF result.kind = "oserror"
        THEN Raised(exc_nopsql, made, ran)
        ELSE LET e == Envelope(field, result)
             IN  IF e.raised
                 THEN Raised(e.exc, made, ran)
                 ELSE Done(e.response, made, ran)

\* Dispatch gone wrong: the posts branch wraps its rows under "users"
Dispatch_PostsUnderUsers(query, d, ran) ==
    LET u == PyIn(kw_users, query)
    IN  IF ~u.ok THEN Raised(u.exc, <<>>, ran)
        ELSE IF u.value
        THEN Resolve(kw_users, UsersArgv, d, ran \o <<"users">>)
        ELSE LET p == PyIn(kw_posts, query)
             IN  IF ~p.ok THEN Raised(p.exc, <<>>, ran)
                 ELSE IF p.value
                 THEN Resolve(kw_users, PostsArgv, d, ran \o <<"posts">>)
                 ELSE Done(Errors(msg_unknown), <<>>, ran \o <<"unknown">>)

\* Dispatch gone wrong: "posts" is tested before "users"
Dispatch_PostsFirst(query, d, ran) ==
    LET p == PyIn(kw_posts, query)
    IN  IF ~p.ok THEN Raised(p.exc, <<>>, ran)
        ELSE IF p.value
        THEN Resolve(kw_posts, PostsArgv, d, ran \o <<"posts">>)
        ELSE LET u == PyIn(kw_users, query)
             IN  IF ~u.ok THEN Raised(u.exc, <<>>, ran)
                 ELSE IF u.value
                 THEN Resolve(kw_users, UsersArgv, d, ran \o <<"users">>)
                 ELSE Done(Errors(msg_unknown), <<>>, ran \o <<"unknown">>)

\* Dispatch gone wrong: the users template is completed with the request's
\* query text, so the SQL sent is the template only for one query
Dispatch_Interpolated(query, d, ran) ==
    LET u == PyIn(kw_users, query)
    IN  IF ~u.ok THEN Raised(u.exc, <<>>, ran)
        ELSE IF u.value
        THEN Resolve(kw_users,
                     <<"psql", TestDb, "-t", "-c",
                       IF query = PyStr(q_users) THEN UsersSql
                       ELSE "SELECT json_agg(row_to_json(users)) FROM users WHERE name = '{ posts users }';">>,
                     d, ran \o <<"users">>)
        ELSE LET p == PyIn(kw_posts, query)
             IN  IF ~p.ok THEN Raised(p.exc, <<>>, ran)
                 ELSE IF p.value
                 THEN Resolve(kw_posts, PostsArgv, d, ran \o <<"posts">>)
                 ELSE Done(Errors(msg_unknown), <<>>, ran \o <<"unknown">>)

\* the keyword tests, in the order the if/elif chain makes them
Dispatch(query, d, ran) ==
    LET u == PyIn(kw_users, query)
    IN  IF ~u.ok THEN Raised(u.exc, <<>>, ran)
        ELSE IF u.value
        THEN Resolve(kw_users, UsersArgv, d, ran \o <<"users">>)
        ELSE LET p == PyIn(kw_posts, query)
             IN  IF ~p.ok THEN Raised(p.exc, <<>>, ran)
                 ELSE IF p.value
                 THEN Resolve(kw_posts, PostsArgv, d, ran \o <<"posts">>)
                 ELSE Done(Errors(msg_unknown), <<>>, ran \o <<"unknown">>)

\* the try block
TryBlock(post_data, d) ==
    LET text == Utf8Decode(post_data)
    IN  IF ~text.ok THEN Raised(text.exc, <<>>, <<"read", "parse">>)
        ELSE LET query_data == JsonLoads(text.text)
             IN  IF ~query_data.ok
                 THEN Raised(query_data.exc, <<>>, <<"read", "parse">>)
                 ELSE LET query == PyGet(query_data.value, k_query, PyStr(<<>>))
                      IN  IF ~query.ok
                          THEN Raised(query.exc, <<>>, <<"read", "parse">>)
                          ELSE Dispatch(query.value, d,
                                        <<"read", "parse", "match">>)

\* Send200 gone wrong: the body is written before the CORS header is sent
Send200_BodyEarly(response) ==
    <<Status(200), Header("Content-type", "application/json"),
      EndHeaders, Body(JsonDumps(response)),
      Header("Access-Control-Allow-Origin", "*")>>

\* the response sent after the try block completed
Send200(response) ==
    <<Status(200), Header("Content-type", "application/json"),
      Header("Access-Control-Allow-Origin", "*"), EndHeaders,
      Body(JsonDumps(response))>>

\* Send500 gone wrong: the 200 status line went out before the failure
Send500_After200(exc) ==
    <<Status(200), Status(500), Header("Content-type", "application/json"),
      EndHeaders, Body(JsonDumps(Errors(exc)))>>

\* the response sent by the except clause
Send500(exc) ==
    <<Status(500), Header("Content-type", "application/json"), EndHeaders,
      Body(JsonDumps(Errors(exc)))>>

Send404 == <<Status(404), EndHeaders>>

\* everything one call of do_POST does
do_POST(r, d) ==
    IF r.path = Endpoint
    THEN LET content_length == ContentLength(r)
         IN  IF ~content_length.ok
             THEN [wire |-> <<>>, calls |-> <<>>,
                   escaped |-> content_length.exc, trace |-> <<>>]
             ELSE LET t == TryBlock(Read(r.body, content_length.n), d)
                  IN  [wire |-> IF t.raised THEN Send500(t.exc)
                                ELSE Send200(t.response),
                       calls |-> t.calls, escaped |-> "none",
                       trace |-> t.trace \o
                                 <<IF t.raised THEN "except" ELSE "send">>]
    ELSE [wire |-> Send404, calls |-> <<>>, escaped |-> "none",
          trace |-> <<"not_found">>]

(***************************************************************************)
(* GraphQLHandler.do_OPTIONS                                               *)
(***************************************************************************)
\* do_OPTIONS gone wrong: the allowed methods are not advertised
do_OPTIONS_NoMethods(r, d) ==
    [wire |-> <<Status(200), Header("Access-Control-Allow-Origin", "*"),
                Header("Access-Control-Allow-Headers", "Content-Type"),
                EndHeaders>>,
     calls |-> <<>>, escaped |-> "none", trace |-> <<"options">>]

do_OPTIONS(r, d) ==
    [wire |-> <<Status(200), Header("Access-Control-Allow-Origin", "*"),
                Header("Access-Control-Allow-Methods", "POST, OPTIONS"),
                Header("Access-Control-Allow-Headers", "Content-Type"),
                EndHeaders>>,
     calls |-> <<>>, escaped |-> "none", trace |-> <<"options">>]

(***************************************************************************)
(* A method the class defines no do_ method for: BaseHTTPRequestHandler,   *)
(* which GraphQLHandler extends, answers 501 with its own error page.      *)
(***************************************************************************)
\* the text Unsupported method
ErrorPage == <<RawText(<<"U","n","s","u","p","p","o","r","t","e","d"," ",
                          "m","e","t","h","o","d">>)>>
Unsupported(r, d) ==
    [wire |-> <<Status(501), Header("Content-Type", "text/html;charset=utf-8"),
                Header("Connection", "close"), EndHeaders, Body(ErrorPage)>>,
     calls |-> <<>>, escaped |-> "none", trace |-> <<"unsupported">>]

(***************************************************************************)
(* src/db_helper.py: the command-line helper.                              *)
(***************************************************************************)
ProbeCmd == "pg_isready -h localhost -p 5432"
ServiceCmd == "sudo service postgresql start"
ListCmd == "psql -l -t"

\* what a shell command ends with: exit status and captured output
Finished(rc, out) == [returncode |-> rc, stdout |-> out]

\* pg_isready exits 0 accepting, 1 rejecting, 2 no response, 3 no attempt;
\* the shell exits 127 when the command is missing
\* captured output is a sequence of lines; a line is the sequence of its
\* columns as split at '|', each the blanks before its text and the text
Column(text) == [blanks |-> 1, text |-> text]
Line(text) == <<Column(text)>>
BlankLine == <<[blanks |-> 0, text |-> ""]>>

ProbeResults ==
    {Finished(0, <<Line("localhost:5432 - accepting connections")>>),
     Finished(1, <<Line("localhost:5432 - rejecting connections")>>),
     Finished(2, <<Line("localhost:5432 - no response")>>),
     Finished(3, <<Line("localhost:5432 - no attempt")>>),
     Finished(127, <<>>)}
ServiceResults == {Finished(0, <<>>), Finished(1, <<>>)}

\* the lines `psql -l -t` prints
ListLines ==
    {<<Column("postgres"), Column("postgres")>>,
     <<Column("codegen_test"), Column("postgres")>>,
     <<Column("template0"), Column("postgres")>>,
     <<Column(""), Column("postgres=CTc/postgres")>>,
     <<Column("-archive"), Column("postgres")>>,
     Line("-----------+----------"),
     BlankLine}

\* the texts that begin with '-'
StartsWithDash(text) == text \in {"-archive", "-----------+----------"}

\* whether a line is empty or blanks only
IsBlank(line) == Len(line) = 1 /\ line[1].text = ""

\* str.strip() of captured output: blank lines at either end go, and so do
\* the blanks before the first text
StripOutput(out) ==
    LET kept == {k \in DOMAIN out : ~IsBlank(out[k])}
    IN  IF kept = {} THEN <<>>
        ELSE LET lo == SetMin(kept)
                 hi == SetMax(kept)
             IN  [k \in 1..(hi - lo + 1) |->
                     IF k = 1
                     THEN [c \in DOMAIN out[lo] |->
                              IF c = 1 THEN [out[lo][c] EXCEPT !.blanks = 0]
                              ELSE out[lo][c]]
                     ELSE out[lo + k - 1]]
ListOutputs == UNION {[1..n -> ListLines] : n \in 0..MaxLines}
ListResults == {Finished(0, out) : out \in ListOutputs} \cup {Finished(2, <<>>)}

\* subprocess.run(cmd, shell=True, capture_output=True, text=True,
\* check=check): CalledProcessError is raised only when check is set
SubprocessRaises(result, check) == check /\ result.returncode # 0

\* run_command(cmd, check) when the command ends with result: the value
\* returned (stdout stripped, or None), what is printed, and whether the
\* process exits with status 1
run_command(cmd, check, result) ==
    IF SubprocessRaises(result, check)
    THEN [none |-> TRUE, value |-> <<>>,
          printed |-> <<"Error running command", "Error:">>,
          exits |-> check]
    ELSE [none |-> FALSE, value |-> StripOutput(result.stdout),
          printed |-> <<>>, exits |-> FALSE]

\* check_postgres_running() when the probe ends with result
check_postgres_running(result) ==
    ~run_command(ProbeCmd, FALSE, result).none

\* the database names show_status prints for the lines of `psql -l -t`:
\* those with a '|' that do not begin with '-', named by their first column
Bullets(lines) ==
    LET shown == {i \in 1..Len(lines) :
                     /\ Len(lines[i]) > 1
                     /\ ~StartsWithDash(lines[i][1].text)
                     /\ lines[i][1].text \notin {"", "template0", "template1"}}
        F[i \in 0..Len(lines)] ==
            IF i = 0 THEN <<>>
            ELSE IF i \in shown THEN Append(F[i - 1], lines[i][1].text)
            ELSE F[i - 1]
    IN  F[Len(lines)]

\* show_status() when the probe and the listing end with these results
show_status(probe, listing) ==
    IF check_postgres_running(probe)
    THEN LET result == run_command(ListCmd, FALSE, listing)
         IN  [ran |-> <<[cmd |-> ProbeCmd, rc |-> probe.returncode],
                        [cmd |-> ListCmd, rc |-> listing.returncode]>>,
              checks |-> <<[rc |-> probe.returncode, ready |-> TRUE]>>,
              out |-> <<"PostgreSQL Status:", "PostgreSQL is running",
                        "Available databases:">>
                      \o result.printed
                      \o (IF ~result.none /\ result.value # <<>>
                          THEN Bullets(result.value) ELSE <<>>)]
    ELSE [ran |-> <<[cmd |-> ProbeCmd, rc |-> probe.returncode]>>,
          checks |-> <<[rc |-> probe.returncode, ready |-> FALSE]>>,
          out |-> <<"PostgreSQL Status:", "PostgreSQL is not running",
                    "Run: python3 db_helper.py start">>]

\* sys.argv[1:]
HelperArgs ==
    {<<>>, <<"start">>, <<"status">>, <<"create">>, <<"create", "app">>,
     <<"connect">>, <<"connect", "app">>, <<"stop">>}

\* the polls start_postgres makes at most
Polls == 10

HelperState(pc, args, i, checks, ran, ret, exit, out) ==
    [pc |-> pc, args |-> args, i |-> i, checks |-> checks, ran |-> ran,
     ret |-> ret, exit |-> exit, out |-> out]
\* exit is -1 while the process runs
HelperIdle == HelperState("idle", <<>>, 0, <<>>, <<>>, "none", -1, <<>>)

\* the __main__ block, but for `start`, which goes on in start_postgres
HelperMain ==
    /\ helper.pc = "idle"
    /\ \E args \in HelperArgs :
          \/ /\ args = <<>>
             /\ \E probe \in ProbeResults, listing \in ListResults :
                   LET s == show_status(probe, listing)
                   IN  helper' = HelperState("done", args, 0, s.checks, s.ran,
                                             "none", 0, s.out \o <<"Usage:">>)
          \/ /\ Len(args) > 0 /\ args[1] = "start"
             /\ helper' = HelperState("start_postgres", args, 0, <<>>, <<>>,
                                      "none", -1, <<"Starting PostgreSQL...">>)
          \/ /\ Len(args) > 0 /\ args[1] = "status"
             /\ \E probe \in ProbeResults, listing \in ListResults :
                   LET s == show_status(probe, listing)
                   IN  helper' = HelperState("done", args, 0, s.checks, s.ran,
                                             "none", 0, s.out)
          \/ /\ Len(args) > 1 /\ args[1] = "create"
             /\ \E result \in ServiceResults :
                   LET r == run_command("createdb", FALSE, result)
                   IN  helper' = HelperState("done", args, 0, <<>>,
                                   <<[cmd |-> "createdb", rc |-> result.returncode]>>,
                                   "none", 0, <<"Creating database">> \o r.printed)
          \/ /\ Len(args) > 0 /\ args[1] = "connect"
             /\ \E result \in ServiceResults :
                   LET r == run_command("psql", TRUE, result)
                   IN  helper' = HelperState("done", args, 0, <<>>,
                                   <<[cmd |-> "psql", rc |-> result.returncode]>>,
                                   "none", IF r.exits THEN 1 ELSE 0, r.printed)
          \/ /\ Len(args) > 0
             /\ args[1] \notin {"start", "status", "connect"}
             /\ ~(args[1] = "create" /\ Len(args) > 1)
             /\ helper' = HelperState("done", args, 0, <<>>, <<>>, "none", 0,
                                      <<"Unknown command. Use: start, status, create, or connect">>)
    /\ UNCHANGED <<db, req, wire, calls, escaped, trace, at, earlier, run>>

\* start_postgres: run_command("sudo service postgresql start")
StartService ==
    /\ helper.pc = "start_postgres"
    /\ \E result \in ServiceResults :
          LET r == run_command(ServiceCmd, TRUE, result)
              ran == <<[cmd |-> ServiceCmd, rc |-> result.returncode]>>
          IN  helper' = IF r.exits
                        THEN [helper EXCEPT !.pc = "done", !.ran = ran,
                                            !.exit = 1, !.out = @ \o r.printed]
                        ELSE [helper EXCEPT !.pc = "poll", !.ran = ran]
    /\ UNCHANGED <<db, req, wire, calls, escaped, trace, at, earlier, run>>

\* start_postgres: one turn of `for i in range(10)`, and what follows the
\* loop when that turn was the last
Poll ==
    /\ helper.pc = "poll"
    /\ helper.i < Polls
    /\ \E probe \in ProbeResults :
          LET ready == check_postgres_running(probe)
              checked == [helper EXCEPT
                             !.checks = Append(@, [rc |-> probe.returncode,
                                                   ready |-> ready]),
                             !.ran = Append(@, [cmd |-> ProbeCmd,
                                                rc |-> probe.returncode])]
          IN  helper' =
                IF ready
                THEN [checked EXCEPT !.pc = "done", !.ret = "True", !.exit = 0,
                                     !.out = Append(@, "PostgreSQL is ready!")]
                ELSE IF helper.i + 1 < Polls
                THEN [checked EXCEPT !.i = @ + 1]
                ELSE [checked EXCEPT !.pc = "done", !.i = @ + 1,
                                     !.ret = "False", !.exit = 0,
                                     !.out = Append(@, "PostgreSQL failed to start")]
    /\ UNCHANGED <<db, req, wire, calls, escaped, trace, at, earlier, run>>

(***************************************************************************)
(* The two test runners: src/test_postgres_simple.py and                   *)
(* src/test_postgres_backend.py, each started as `python3 <file>`.         *)
(***************************************************************************)
Runners == {"test_postgres_simple.py", "test_postgres_backend.py"}

\* the `tests` list of each runner, in its order
Tests(runner) ==
    IF runner = "test_postgres_simple.py"
    THEN <<"test_postgres_connection", "test_database_operations",
           "test_migration_simulation", "test_json_queries",
           "test_connection_pooling">>
    ELSE <<"test_postgres_running", "test_database_creation",
           "test_migrations", "test_graphql_server_setup",
           "test_performance">>

\* what a test function does: returns True, returns False, or raises
TestOutcomes == {"True", "False", "raises"}

\* whether Python compiles the file: in test_postgres_backend.py the '''
\* literal opened for the server script is closed by the ''' of the SQL
\* inside it, and what follows is not Python
Compiles(runner) == runner = "test_postgres_simple.py"

RunnerState(pc, runner, attempted, outcomes, passed, cleanups, verdict, exit) ==
    [pc |-> pc, runner |-> runner, attempted |-> attempted,
     outcomes |-> outcomes, passed |-> passed, cleanups |-> cleanups,
     verdict |-> verdict, exit |-> exit]
\* exit is -1 while the process runs
RunnerIdle == RunnerState("idle", "", <<>>, <<>>, 0, 0, "none", -1)

\* python3 <file>: compile the file, then enter main() up to the loop
Launch ==
    /\ run.pc = "idle"
    /\ \E runner \in Runners :
          run' = IF Compiles(runner)
                 THEN RunnerState("tests", runner, <<>>, <<>>, 0, 0, "none", -1)
                 ELSE RunnerState("done", runner, <<>>, <<>>, 0, 0,
                                  "SyntaxError", 1)
    /\ UNCHANGED <<db, req, wire, calls, escaped, trace, at, earlier, helper>>

\* main(): one turn of `for test_name, test_func in tests`
RunTest ==
    /\ run.pc = "tests"
    /\ Len(run.attempted) < Len(Tests(run.runner))
    /\ \E outcome \in TestOutcomes :
          run' = [run EXCEPT
                     !.attempted = Append(@, Tests(run.runner)[Len(@) + 1]),
                     !.outcomes = Append(@, outcome),
                     !.passed = IF outcome = "True" THEN @ + 1 ELSE @]
    /\ UNCHANGED <<db, req, wire, calls, escaped, trace, at, earlier, helper>>

\* main() after the loop: cleanup(), the verdict, sys.exit
Finish ==
    /\ run.pc = "tests"
    /\ Len(run.attempted) = Len(Tests(run.runner))
    /\ LET success == run.passed = Len(Tests(run.runner))
       IN  run' = [run EXCEPT !.pc = "done",
                              !.cleanups = @ + 1,
                              !.verdict = IF success THEN "True" ELSE "False",
                              !.exit = IF success THEN 0 ELSE 1]
    /\ UNCHANGED <<db, req, wire, calls, escaped, trace, at, earlier, helper>>

(***************************************************************************)
(* The server as a state machine: one request answered per step.  The      *)
(* handler object is built per request and the module keeps no globals, so *)
(* the only state that outlives a request is the backend's.  `at` and      *)
(* `earlier` are history variables, kept by SpecHistory alone.             *)
(***************************************************************************)
NoBackend == [s \in {UsersSql, PostsSql} |-> SpawnError]

Exchange(r, d, w, c, e) ==
    [req |-> r, at |-> d, wire |-> w, calls |-> c, escaped |-> e]
NoExchange == Exchange(NoRequest, NoBackend, <<>>, <<>>, "none")

Init ==
    /\ db \in Backends
    /\ req = NoRequest
    /\ wire = <<>>
    /\ calls = <<>>
    /\ escaped = "none"
    /\ trace = <<>>
    /\ at = NoBackend
    /\ earlier = NoExchange
    /\ helper = HelperIdle
    /\ run = RunnerIdle

\* request r is answered with the effects o of its handler
Answer(r, o) ==
    /\ req' = r
    /\ wire' = o.wire
    /\ calls' = o.calls
    /\ escaped' = o.escaped
    /\ trace' = o.trace
    /\ UNCHANGED <<db, helper, run>>

Post == \E r \in PostRequests :
            Answer(r, do_POST(r, db)) /\ UNCHANGED <<at, earlier>>

Options == \E r \in OptionsRequests :
               Answer(r, do_OPTIONS(r, db)) /\ UNCHANGED <<at, earlier>>

OtherMethod == \E r \in OtherRequests :
                   Answer(r, Unsupported(r, db)) /\ UNCHANGED <<at, earlier>>

\* the database changes under the server: one SQL text now answers otherwise
Change(B) ==
    /\ \E b \in B :
          /\ \E s \in DOMAIN db : \A x \in DOMAIN db : x # s => b[x] = db[x]
          /\ db' = b
    /\ UNCHANGED <<req, wire, calls, escaped, trace, at, earlier, helper, run>>

BackendChange == Change(Backends)

Next == Post \/ Options \/ OtherMethod \/ BackendChange

Spec == Init /\ [][Next]_vars

(***************************************************************************)
(* The scripts as state machines: one run of db_helper.py, one run of a    *)
(* test runner.  Neither talks to the server above, which stays at rest.   *)
(***************************************************************************)
InitScripts ==
    /\ db = NoBackend
    /\ req = NoRequest
    /\ wire = <<>>
    /\ calls = <<>>
    /\ escaped = "none"
    /\ trace = <<>>
    /\ at = NoBackend
    /\ earlier = NoExchange
    /\ helper = HelperIdle
    /\ run = RunnerIdle

NextHelper == HelperMain \/ StartService \/ Poll

SpecHelper == InitScripts /\ [][NextHelper]_vars

NextRunner == Launch \/ RunTest \/ Finish

SpecRunner == InitScripts /\ [][NextRunner]_vars

(***************************************************************************)
(* The same server with its history recorded: the backend state each       *)
(* request met, and one earlier exchange, whichever.                       *)
(***************************************************************************)
HistoryOutcomes(sql) ==
    {Exited(0, Padded(<<JsonText(Rows(sql, 1))>>, 1), <<>>),
     Exited(0, Padded(NullText, 1), <<>>),
     Exited(0, <<RawText(txt_notice)>>, <<>>),
     Exited(1, <<>>, <<RawText(txt_fatal)>>)}
HistoryBackends ==
    {[s \in {UsersSql, PostsSql} |-> IF s = UsersSql THEN u ELSE p] :
        u \in HistoryOutcomes(UsersSql), p \in HistoryOutcomes(PostsSql)}
HistoryPosts ==
    {Request("POST", Endpoint, Length(1), Payload(PyStr(q))) :
        q \in {q_users, q_posts, q_unknown, q_posts_users}}

InitHistory ==
    /\ db \in HistoryBackends
    /\ req = NoRequest
    /\ wire = <<>>
    /\ calls = <<>>
    /\ escaped = "none"
    /\ trace = <<>>
    /\ at = NoBackend
    /\ earlier = NoExchange
    /\ helper = HelperIdle
    /\ run = RunnerIdle

Record ==
    /\ at' = db
    /\ earlier' \in {earlier} \cup
                    (IF req = NoRequest THEN {}
                     ELSE {Exchange(req, at, wire, calls, escaped)})

PostRecorded == \E r \in HistoryPosts : Answer(r, do_POST(r, db)) /\ Record

OptionsRecorded ==
    \E r \in OptionsRequests : Answer(r, do_OPTIONS(r, db)) /\ Record

BackendChangeRecorded == Change(HistoryBackends)

NextHistory == PostRecorded \/ OptionsRecorded \/ BackendChangeRecorded

SpecHistory == InitHistory /\ [][NextHistory]_vars

(***************************************************************************)
(* Reading a request and a response.                                       *)
(***************************************************************************)
\* a POST to the endpoint that declares the length of the body it carries
FramedPost(r) ==
    /\ r.method = "POST"
    /\ r.path = Endpoint
    /\ r.content_length = Length(Len(r.body))

\* the body is one JSON object
IsJsonObject(r) ==
    LET s == Strip(r.body)
    IN  Len(s) = 1 /\ s[1].t = "json" /\ s[1].v.k = "dict"

\* the values the JSON object gives its `query` field
QueryValues(r) ==
    LET o == Strip(r.body)[1].v
    IN  {o.pairs[i][2] : i \in {j \in 1..Len(o.pairs) : o.pairs[j][1] = k_query}}

\* the request's query is text (the empty text when the field is absent)
HasQueryText(r) ==
    /\ FramedPost(r)
    /\ IsJsonObject(r)
    /\ \A v \in QueryValues(r) : v.k = "str"
QueryText(r) ==
    IF QueryValues(r) = {} THEN <<>> ELSE (CHOOSE v \in QueryValues(r) : TRUE).s

Answered == req # NoRequest

StatusLines(w) == SelectSeq(w, LAMBDA x : x.op = "status")
BodyParts(w) == SelectSeq(w, LAMBDA x : x.op = "body")
HeadersOf(w) == {<<w[i].name, w[i].value>> : i \in {j \in 1..Len(w) : w[j].op = "header"}}
\* one status line, and that status
HasStatus(w, code) == Len(StatusLines(w)) = 1 /\ StatusLines(w)[1].code = code
\* one body write, and that JSON document
HasJsonBody(w, v) == Len(BodyParts(w)) = 1 /\ BodyParts(w)[1].body = <<JsonText(v)>>
HasNoBody(w) == \A i \in 1..Len(BodyParts(w)) : BodyParts(w)[i].body = <<>>

\* the psql call made for the request exited with status 0
CallSucceeded == Len(calls) = 1 /\ calls[1].result.kind = "exit"
                    /\ calls[1].result.returncode = 0
CallFailed == Len(calls) = 1 /\ calls[1].result.kind = "exit"
                    /\ calls[1].result.returncode # 0
\* psql's output without its surrounding whitespace
Output == Strip(calls[1].result.stdout)
IsEmptyMarker(text) == text = <<>> \/ text = NullText
IsJsonDocument(text) == Len(text) = 1 /\ text[1].t = "json"
\* the records the claim calls R
Records ==
    IF IsEmptyMarker(Output) THEN PyList(<<>>) ELSE Output[1].v

(***************************************************************************)
(* C1.  A POST to /graphql whose query text contains "users" and not       *)
(* "posts", answered by a psql call that exited 0 with output that is      *)
(* empty, `null` or a JSON document, gets HTTP 200 with the body           *)
(* {"data":{"users": R}}: R the decoded output, or [] for empty or null.   *)
(***************************************************************************)
C1_UsersData ==
    (/\ HasQueryText(req)
     /\ Contains(kw_users, QueryText(req))
     /\ ~Contains(kw_posts, QueryText(req)))
    => /\ Len(calls) = 1
       /\ calls[1].argv = UsersArgv
       /\ (CallSucceeded /\ (IsEmptyMarker(Output) \/ IsJsonDocument(Output)))
          => /\ HasStatus(wire, 200)
             /\ HasJsonBody(wire, Data(kw_users, Records))

\* a users query answered with `null` output, and one answered with rows
C1_Witness ==
    /\ HasQueryText(req)
    /\ Contains(kw_users, QueryText(req))
    /\ ~Contains(kw_posts, QueryText(req))
    /\ CallSucceeded
    /\ Output = NullText
    /\ Len(calls[1].result.stdout) > 1
    /\ HasJsonBody(wire, Data(kw_users, PyList(<<>>)))

(***************************************************************************)
(* C2.  As stated: a POST to /graphql whose query text contains "posts",   *)
(* whatever else it contains, answered by a successful psql call, gets the *)
(* body {"data":{"posts": R}}.                                             *)
(***************************************************************************)
C2_PostsWhateverElse ==
    (/\ HasQueryText(req)
     /\ Contains(kw_posts, QueryText(req))
     /\ CallSucceeded
     /\ (IsEmptyMarker(Output) \/ IsJsonDocument(Output)))
    => HasJsonBody(wire, Data(kw_posts, Records))

(***************************************************************************)
(* C2, amended.  A POST to /graphql whose query text contains "posts" and  *)
(* does not contain "users" is answered from the posts template: when that *)
(* psql call exited 0 with empty, `null` or JSON output the response is    *)
(* HTTP 200 with body {"data":{"posts": R}}.                               *)
(***************************************************************************)
C2_PostsData ==
    (/\ HasQueryText(req)
     /\ Contains(kw_posts, QueryText(req))
     /\ ~Contains(kw_users, QueryText(req)))
    => /\ Len(calls) = 1
       /\ calls[1].argv = PostsArgv
       /\ (CallSucceeded /\ (IsEmptyMarker(Output) \/ IsJsonDocument(Output)))
          => /\ HasStatus(wire, 200)
             /\ HasJsonBody(wire, Data(kw_posts, Records))

\* a posts query answered with a row that embeds its author
C2_Witness ==
    /\ HasQueryText(req)
    /\ Contains(kw_posts, QueryText(req))
    /\ ~Contains(kw_users, QueryText(req))
    /\ CallSucceeded
    /\ HasJsonBody(wire, Data(kw_posts, PyList(<<PostRow(1)>>)))

(***************************************************************************)
(* C3.  A POST to /graphql whose body is a JSON object and whose query     *)
(* text (empty when absent) contains neither "users" nor "posts" gets      *)
(* HTTP 200 with exactly {"errors":[{"message":"Unknown query"}]}, and no  *)
(* psql call is made.                                                      *)
(***************************************************************************)
C3_UnknownQuery ==
    (/\ HasQueryText(req)
     /\ ~Contains(kw_users, QueryText(req))
     /\ ~Contains(kw_posts, QueryText(req)))
    => /\ HasStatus(wire, 200)
       /\ HasJsonBody(wire, Errors(msg_unknown))
       /\ calls = <<>>

\* a query that holds the letters of a keyword, but not as one run
C3_Witness ==
    /\ HasQueryText(req)
    /\ QueryText(req) = q_user_s
    /\ HasJsonBody(wire, Errors(msg_unknown))

(***************************************************************************)
(* C4.  A request whose path is not /graphql gets HTTP 404 with an empty   *)
(* body whatever its method, and neither its body is parsed nor psql run.  *)
(***************************************************************************)
C4_WrongPath404 ==
    (Answered /\ req.path # Endpoint)
    => /\ HasStatus(wire, 404)
       /\ HasNoBody(wire)
       /\ calls = <<>>
       /\ \A i \in 1..Len(trace) : trace[i] \notin {"read", "parse"}

(***************************************************************************)
(* C5.  When the psql call made for a matched keyword exits with a status  *)
(* other than 0, the response is HTTP 200 with exactly                     *)
(* {"errors":[{"message":"Database query failed"}]}, and nothing psql      *)
(* wrote to stdout or stderr is part of the response.                      *)
(***************************************************************************)
\* v and every value nested in it, to depth n
RECURSIVE ValuesIn(_, _)
ValuesIn(v, n) ==
    IF n = 0 THEN {v}
    ELSE {v} \cup
         CASE v.k = "list" ->
                UNION {ValuesIn(v.items[i], n - 1) : i \in 1..Len(v.items)}
           [] v.k = "dict" ->
                UNION {ValuesIn(v.pairs[i][2], n - 1) : i \in 1..Len(v.pairs)}
           [] OTHER -> {}

\* the JSON documents written to the connection as bodies
DocumentsSent(w) ==
    UNION {{BodyParts(w)[i].body[j].v :
               j \in {m \in 1..Len(BodyParts(w)[i].body) :
                         BodyParts(w)[i].body[m].t = "json"}} :
           i \in 1..Len(BodyParts(w))}
\* every value those documents hold, and every text among them
ValuesSent(w) == UNION {ValuesIn(v, 4) : v \in DocumentsSent(w)}
TextsSent(w) == {v.s : v \in {x \in ValuesSent(w) : x.k = "str"}}

\* some text or JSON value of `output` shows in what was sent
Leaks(output, w) ==
    \E i \in 1..Len(output) :
        \/ /\ output[i].t = "raw"
           /\ \E s \in TextsSent(w) : Contains(output[i].s, s)
        \/ /\ output[i].t = "json"
           /\ output[i].v \in ValuesSent(w)

C5_BackendFailure ==
    CallFailed
    => /\ HasStatus(wire, 200)
       /\ HasJsonBody(wire, Errors(msg_db_failed))
       /\ ~Leaks(calls[1].result.stdout, wire)
       /\ ~Leaks(calls[1].result.stderr, wire)

\* psql failed after printing rows and a diagnostic
C5_Witness ==
    /\ CallFailed
    /\ calls[1].result.stdout # <<>>
    /\ calls[1].result.stderr # <<>>
    /\ HasJsonBody(wire, Errors(msg_db_failed))

(***************************************************************************)
(* C6.  No exception leaves the handler: every request, whatever its path, *)
(* method, headers, body and backend outcome, gets exactly one response,   *)
(* with status 200, 500, 404 or 400, a failure being reported as an       *)
(* `errors` array (a 404 has no body).                                     *)
(***************************************************************************)
IsErrorsBody(w) == \E s \in TextsSent(w) : HasJsonBody(w, Errors(s))

C6_NeverRaises ==
    Answered
    => /\ escaped = "none"
       /\ Len(StatusLines(wire)) = 1
       /\ StatusLines(wire)[1].code \in {200, 500, 404, 400}
       /\ StatusLines(wire)[1].code \notin {200, 404} => IsErrorsBody(wire)

(***************************************************************************)
(* C7.  When the psql call exited 0 and its output, neither empty nor      *)
(* `null`, is not valid JSON, the response is HTTP 200 with                *)
(* {"errors":[{"message":"Database query failed"}]}: the decode fault and  *)
(* its text do not reach the client.                                       *)
(***************************************************************************)
C7_DecodeSoftError ==
    (CallSucceeded /\ ~IsEmptyMarker(Output) /\ ~IsJsonDocument(Output))
    => /\ HasStatus(wire, 200)
       /\ HasJsonBody(wire, Errors(msg_db_failed))

C9_Preflight ==
    (req.method = "OPTIONS" /\ req.path = Endpoint)
    => /\ HasStatus(wire, 200)
       /\ {<<"Access-Control-Allow-Origin", "*">>,
           <<"Access-Control-Allow-Methods", "POST, OPTIONS">>,
           <<"Access-Control-Allow-Headers", "Content-Type">>}
              \subseteq HeadersOf(wire)
       /\ BodyParts(wire) = <<>>
       /\ wire[Len(wire)].op = "end_headers"
       /\ calls = <<>>
       /\ \A i \in 1..Len(trace) :
             trace[i] \notin {"read", "parse", "match", "users", "posts", "unknown"}

\* a preflight answered while psql cannot even be started
C9_Witness ==
    /\ req.method = "OPTIONS"
    /\ req.path = Endpoint
    /\ db[UsersSql].kind = "oserror"
    /\ HasStatus(wire, 200)

(***************************************************************************)
(* C10.  A POST that reaches the keyword tests takes exactly one branch,   *)
(* users before posts: a query text with both keywords runs the users      *)
(* template only, one with only "posts" runs the posts template, one with  *)
(* neither runs nothing and gets the "Unknown query" error.                *)
(***************************************************************************)
Branches(t) == SelectSeq(t, LAMBDA x : x \in {"users", "posts", "unknown"})

C10_FirstMatchWins ==
    HasQueryText(req)
    => /\ Len(Branches(trace)) = 1
       /\ Contains(kw_users, QueryText(req))
          => /\ Branches(trace) = <<"users">>
             /\ Len(calls) = 1
             /\ calls[1].argv = UsersArgv
       /\ (~Contains(kw_users, QueryText(req)) /\ Contains(kw_posts, QueryText(req)))
          => /\ Branches(trace) = <<"posts">>
             /\ Len(calls) = 1
             /\ calls[1].argv = PostsArgv
       /\ (~Contains(kw_users, QueryText(req)) /\ ~Contains(kw_posts, QueryText(req)))
          => /\ Branches(trace) = <<"unknown">>
             /\ calls = <<>>
             /\ HasJsonBody(wire, Errors(msg_unknown))

\* a query naming posts before users went to the users template
C10_Witness ==
    /\ HasQueryText(req)
    /\ QueryText(req) = q_posts_users
    /\ Len(calls) = 1
    /\ calls[1].argv = UsersArgv

(***************************************************************************)
(* C11.  As stated: a POST to /graphql whose body is not valid UTF-8, not  *)
(* valid JSON, a JSON value that is no object, or an object whose `query`  *)
(* is not text, gets HTTP 500 with {"errors":[{"message": <exception       *)
(* text>}]}; psql is not run and no 200 status line precedes the 500.      *)
(***************************************************************************)
\* the texts str(e) can be for the exceptions of the try block
ParseFaultTexts ==
    {exc_utf8, exc_json, exc_noget_list, exc_noget_str, exc_noget_int,
     exc_noget_none, exc_notiter_int, exc_notiter_none, exc_notiter_bool}

\* a POST to the endpoint, declaring its length, whose body is no JSON object
NotAnObject(r) ==
    /\ r.method = "POST"
    /\ r.path = Endpoint
    /\ r.content_length = Length(Len(r.body))
    /\ ~IsJsonObject(r)

\* ... or is a JSON object whose `query` has one of the kinds
QueryOfKind(r, kinds) ==
    /\ r.method = "POST"
    /\ r.path = Endpoint
    /\ r.content_length = Length(Len(r.body))
    /\ IsJsonObject(r)
    /\ \E v \in QueryValues(r) : v.k \in kinds

Answered500 ==
    /\ HasStatus(wire, 500)
    /\ wire[1].op = "status"
    /\ \E s \in ParseFaultTexts : HasJsonBody(wire, Errors(s))
    /\ calls = <<>>

C11_Unparsable500 ==
    (NotAnObject(req)
       \/ QueryOfKind(req, {"int", "bool", "NoneType", "list", "dict"}))
    => Answered500

(***************************************************************************)
(* C11, amended.  A POST to /graphql whose body is not valid UTF-8, not    *)
(* valid JSON, a JSON value that is no object, or an object whose `query`  *)
(* is a number, a boolean or null, gets HTTP 500 with                      *)
(* {"errors":[{"message": <exception text>}]}; psql is not run and no 200  *)
(* status line precedes the 500.  (A `query` that is a list or an object   *)
(* passes the `in` tests and is dispatched like text.)                     *)
(***************************************************************************)
C11_ParseFailure500 ==
    (NotAnObject(req) \/ QueryOfKind(req, {"int", "bool", "NoneType"}))
    => Answered500

\* a body that is a JSON list, answered 500 with the AttributeError's text
C11_Witness ==
    /\ NotAnObject(req)
    /\ req.body = <<JsonText(PyList(<<>>))>>
    /\ HasStatus(wire, 500)
    /\ HasJsonBody(wire, Errors(exc_noget_list))

(***************************************************************************)
(* C12.  A request causes at most one psql call: exactly one when a        *)
(* keyword matches; none for a wrong path, an OPTIONS request, a body that *)
(* fails to parse or an unknown query; a call that failed is not made      *)
(* again for the same request.                                             *)
(***************************************************************************)
KeywordMatches(r) ==
    /\ HasQueryText(r)
    /\ Contains(kw_users, QueryText(r)) \/ Contains(kw_posts, QueryText(r))

NoKeywordMatches(r) ==
    /\ HasQueryText(r)
    /\ ~Contains(kw_users, QueryText(r))
    /\ ~Contains(kw_posts, QueryText(r))

ParseFails(r) == NotAnObject(r) \/ QueryOfKind(r, {"int", "bool", "NoneType"})

C12_AtMostOneCall ==
    Answered
    => /\ Len(calls) <= 1
       /\ KeywordMatches(req) => Len(calls) = 1
       /\ (\/ req.path # Endpoint
           \/ req.method = "OPTIONS"
           \/ ParseFails(req)
           \/ NoKeywordMatches(req)) => calls = <<>>
       /\ \A i \in 1..Len(calls) :
             (calls[i].result.kind = "oserror" \/ calls[i].result.returncode # 0)
             => i = Len(calls) /\ i = 1

\* a matched keyword whose one psql call failed
C12_Witness ==
    /\ KeywordMatches(req)
    /\ Len(calls) = 1
    /\ calls[1].result.kind = "exit"
    /\ calls[1].result.returncode # 0
    /\ HasJsonBody(wire, Errors(msg_db_failed))

(***************************************************************************)
(* C13.  The SQL sent for a request depends only on the keyword that       *)
(* matched: two requests that match the same keyword send the same SQL     *)
(* text to the same database, whatever else their query texts hold.        *)
(***************************************************************************)
\* the keyword a query text is dispatched on
Matched(r) ==
    IF Contains(kw_users, QueryText(r)) THEN "users"
    ELSE IF Contains(kw_posts, QueryText(r)) THEN "posts"
    ELSE "none"

C13_TemplateOnly ==
    (/\ earlier # NoExchange
     /\ HasQueryText(earlier.req)
     /\ HasQueryText(req)
     /\ Matched(req) # "none"
     /\ Matched(earlier.req) = Matched(req))
    => /\ Len(calls) = 1
       /\ Len(earlier.calls) = 1
       /\ calls[1].argv = earlier.calls[1].argv
       /\ calls[1].argv[2] = TestDb
       /\ calls[1].argv[5] \in {UsersSql, PostsSql}

\* two different query texts, both holding "users", sent the same SQL
C13_Witness ==
    /\ earlier # NoExchange
    /\ HasQueryText(earlier.req)
    /\ HasQueryText(req)
    /\ QueryText(earlier.req) = q_users
    /\ QueryText(req) = q_posts_users
    /\ calls[1].argv = earlier.calls[1].argv

(***************************************************************************)
(* C14.  Every 200 response of the POST handler, a `data` or a soft        *)
(* `errors` envelope, carries the headers Content-Type: application/json   *)
(* and Access-Control-Allow-Origin: *, all headers being sent before any   *)
(* byte of the body; a 404 response has no body.                           *)
(***************************************************************************)
\* header names compare without regard to case
FoldName(name) ==
    CASE name \in {"Content-type", "Content-Type", "content-type"} -> "content-type"
      [] name = "Access-Control-Allow-Origin" -> "access-control-allow-origin"
      [] OTHER -> name

HasHeader(w, name, value) ==
    \E i \in 1..Len(w) :
        /\ w[i].op = "header"
        /\ FoldName(w[i].name) = FoldName(name)
        /\ w[i].value = value

\* status line, then headers, then the end of the headers, then the body
HeadersPrecedeBody(w) ==
    \E e \in 1..Len(w) :
        /\ w[e].op = "end_headers"
        /\ \A i \in 1..Len(w) :
              /\ w[i].op \in {"status", "header"} => i < e
              /\ w[i].op = "body" => i > e

C14_SuccessHeaders ==
    (Answered /\ req.method = "POST")
    => /\ HasStatus(wire, 200)
          => /\ HasHeader(wire, "Content-Type", "application/json")
             /\ HasHeader(wire, "Access-Control-Allow-Origin", "*")
             /\ HeadersPrecedeBody(wire)
             /\ Len(BodyParts(wire)) = 1
       /\ HasStatus(wire, 404) => BodyParts(wire) = <<>>

\* a soft error, sent with both headers ahead of its body
C14_Witness ==
    /\ req.method = "POST"
    /\ HasStatus(wire, 200)
    /\ HasJsonBody(wire, Errors(msg_db_failed))
    /\ HasHeader(wire, "Access-Control-Allow-Origin", "*")

(***************************************************************************)
(* Claims about src/db_helper.py, under SpecHelper.                        *)
(***************************************************************************)
Printed(line) == \E k \in DOMAIN helper.out : helper.out[k] = line

StatusShown == helper.pc = "done" /\ helper.args \in {<<>>, <<"status">>}

\* C15: check_postgres_running() returns True if and only if the readiness
\* probe (pg_isready) exited with status zero, and when the probe exits
\* non-zero show_status prints its "not running" branch.
C15_ProbeDecides ==
    /\ \A k \in DOMAIN helper.checks :
          helper.checks[k].ready <=> helper.checks[k].rc = 0
    /\ StatusShown /\ helper.checks[1].rc # 0 =>
          /\ Printed("PostgreSQL is not running")
          /\ ~Printed("PostgreSQL is running")

StartRan == helper.args = <<"start">> /\ helper.ran # <<>>

\* C16: start_postgres() makes at most 10 readiness checks; it returns True
\* at the first check whose probe finds the service ready and checks no
\* more, returns False only after 10 checks in a row found it not ready, and
\* exits the process with status 1, without polling, when the service start
\* command fails.
C16_BoundedPolling ==
    StartRan =>
        /\ Len(helper.checks) <= Polls
        /\ \A k \in DOMAIN helper.checks :
              k < Len(helper.checks) => helper.checks[k].rc # 0
        /\ helper.ret = "True" =>
              /\ helper.checks # <<>>
              /\ helper.checks[Len(helper.checks)].rc = 0
        /\ helper.ret = "False" =>
              /\ Len(helper.checks) = Polls
              /\ \A k \in DOMAIN helper.checks : helper.checks[k].rc # 0
        /\ helper.ran[1].rc # 0 =>
              /\ helper.exit = 1
              /\ helper.checks = <<>>
              /\ helper.ret = "none"

(***************************************************************************)
(* Claims about the test runners, under SpecRunner.                        *)
(***************************************************************************)
AllPassed ==
    /\ Len(run.outcomes) = Len(Tests(run.runner))
    /\ \A k \in DOMAIN run.outcomes : run.outcomes[k] = "True"

\* C17: in both test runners every test of the list is attempted, in the
\* listed order, whatever earlier tests returned or raised; the verdict is
\* success if and only if every test passed; and the cleanup that drops the
\* test database runs exactly once, after the tests.
C17_RunnerContract ==
    /\ \A k \in DOMAIN run.attempted :
          /\ k <= Len(Tests(run.runner))
          /\ run.attempted[k] = Tests(run.runner)[k]
    /\ run.cleanups > 0 => run.attempted = Tests(run.runner)
    /\ run.pc = "done" =>
          /\ run.attempted = Tests(run.runner)
          /\ run.exit = 0 <=> AllPassed
          /\ run.cleanups = 1
=============================================================================
